---- MODULE Spec2Model ----
(***************************************************************************)
(* Model of packages/embedder/compare.py: the lexical matcher              *)
(* (fuzzy_search), the semantic matcher (vector_search) and the fusion     *)
(* ranker (hybrid_search), each as one call (Spec), and the evaluation     *)
(* harness main() that runs the three on one snapshot (SpecMain); and the  *)
(* offline jobs vocabulary.py, notes.py and embed.py (SpecJobs).           *)
(*                                                                         *)
(* Strings are sequences of one-character strings.  Scores are exact       *)
(* rationals <<numerator, denominator>> in lowest terms with a positive    *)
(* denominator; the floating-point rounding of the Python floats is not    *)
(* modelled.  Embeddings are integer vectors of Euclidean length 5, so     *)
(* that a cosine similarity is the dot product divided by 25.              *)
(***************************************************************************)
EXTENDS Integers, Sequences, FiniteSets

\* ------------------------------------------------------------------------
\* Bounds of the model
\* ------------------------------------------------------------------------
MaxNotes == 2
MaxLimit == 2
MaxTerms == 3
MaxItems == 120

\* ------------------------------------------------------------------------
\* Program constants
\* ------------------------------------------------------------------------
MinWordLen == 3
ExtractLimit == 5
WordCutoff == 60
FullCutoff == 50
InnerLimit == 20
NotesBatchSize == 100
EmbedBatchSize == 50
FuzzyWeight == <<2, 5>>
VectorWeight == <<3, 5>>
DefaultThreshold == <<3, 4>>

\* ------------------------------------------------------------------------
\* Exact rational arithmetic (Python float arithmetic without rounding)
\* ------------------------------------------------------------------------
Abs(x) == IF x < 0 THEN -x ELSE x

Max2(x, y) == IF x >= y THEN x ELSE y

RECURSIVE GCD(_, _)
GCD(a, b) == IF b = 0 THEN a ELSE GCD(b, a % b)

Rat(n, d) ==
    LET g == GCD(Abs(n), Abs(d))
        s == IF d < 0 THEN -1 ELSE 1
    IN  <<(s * n) \div g, (s * d) \div g>>

Zero == <<0, 1>>
One == <<1, 1>>

RAdd(a, b) == Rat(a[1] * b[2] + b[1] * a[2], a[2] * b[2])
RSub(a, b) == Rat(a[1] * b[2] - b[1] * a[2], a[2] * b[2])
RMul(a, b) == Rat(a[1] * b[1], a[2] * b[2])
RDiv(a, b) == Rat(a[1] * b[2], a[2] * b[1])
RLeq(a, b) == a[1] * b[2] <= b[1] * a[2]
RLess(a, b) == a[1] * b[2] < b[1] * a[2]
RMax(a, b) == IF RLess(b, a) THEN a ELSE b

\* ------------------------------------------------------------------------
\* Strings
\* ------------------------------------------------------------------------
LowerChar(c) ==
    CASE c = "P" -> "p"
      [] c = "L" -> "l"
      [] c = "U" -> "u"
      [] c = "M" -> "m"
      [] OTHER -> c

\* str.lower()
Lower(s) == [i \in 1..Len(s) |-> LowerChar(s[i])]

\* str.split(): split on runs of whitespace, no empty words
RECURSIVE SplitWords(_, _, _)
SplitWords(s, cur, acc) ==
    IF s = <<>>
    THEN IF cur = <<>> THEN acc ELSE Append(acc, cur)
    ELSE IF Head(s) = " "
         THEN SplitWords(Tail(s), <<>>, IF cur = <<>> THEN acc ELSE Append(acc, cur))
         ELSE SplitWords(Tail(s), Append(cur, Head(s)), acc)

Split(s) == SplitWords(s, <<>>, <<>>)

\* a in b (Python substring test)
IsSubstring(a, b) ==
    \E i \in 0..(Len(b) - Len(a)) : SubSeq(b, i + 1, i + Len(a)) = a

\* ------------------------------------------------------------------------
\* rapidfuzz: fuzz.ratio and process.extract
\* ------------------------------------------------------------------------
\* one row of the longest-common-subsequence table, built left to right:
\* prev[j] and cur[j] hold column j - 1, and the next column is Len(cur)
RECURSIVE LCSRow(_, _, _, _)
LCSRow(prev, ch, b, cur) ==
    IF Len(cur) > Len(b)
    THEN cur
    ELSE LET j == Len(cur)
         IN  LCSRow(prev, ch, b,
                    Append(cur, IF ch = b[j]
                                THEN prev[j] + 1
                                ELSE Max2(prev[j + 1], cur[j])))

RECURSIVE LCSRows(_, _, _, _)
LCSRows(a, b, i, prev) ==
    IF i > Len(a) \/ Len(prev) = 0
    THEN prev[Len(b) + 1]
    ELSE LCSRows(a, b, i + 1, LCSRow(prev, a[i], b, <<0>>))

\* length of the longest common subsequence of a and b
LCSLen(a, b) == LCSRows(a, b, 1, [j \in 1..(Len(b) + 1) |-> 0])

\* fuzz.ratio: normalized Indel similarity on the scale 0..100,
\* 100 * (1 - (|a| + |b| - 2 * lcs) / (|a| + |b|)); two empty strings score 100
FuzzRatio(a, b) ==
    IF Len(a) + Len(b) = 0
    THEN <<100, 1>>
    ELSE Rat(200 * LCSLen(a, b), Len(a) + Len(b))

\* a slice that keeps one item too many
TakeOneMore(seq, n) ==
    IF n >= 0
    THEN SubSeq(seq, 1, IF n + 1 < Len(seq) THEN n + 1 ELSE Len(seq))
    ELSE SubSeq(seq, 1, Max2(Len(seq) + n, 0))

\* Python slice seq[:n]
Take(seq, n) ==
    IF n >= 0
    THEN SubSeq(seq, 1, IF n < Len(seq) THEN n ELSE Len(seq))
    ELSE SubSeq(seq, 1, Max2(Len(seq) + n, 0))

\* an insertion that puts an item before the items of equal score
RECURSIVE InsertDescUnstable(_, _, _)
InsertDescUnstable(sorted, x, i) ==
    IF i > Len(sorted) \/ RLeq(sorted[i][2], x[2])
    THEN SubSeq(sorted, 1, i - 1) \o <<x>> \o SubSeq(sorted, i, Len(sorted))
    ELSE InsertDescUnstable(sorted, x, i + 1)

\* sorted(items, key=lambda x: x[1], reverse=True): stable, descending
RECURSIVE InsertDesc(_, _, _)
InsertDesc(sorted, x, i) ==
    IF i > Len(sorted) \/ RLess(sorted[i][2], x[2])
    THEN SubSeq(sorted, 1, i - 1) \o <<x>> \o SubSeq(sorted, i, Len(sorted))
    ELSE InsertDesc(sorted, x, i + 1)

RECURSIVE SortFrom(_, _, _)
SortFrom(items, i, sorted) ==
    IF i > Len(items)
    THEN sorted
    ELSE SortFrom(items, i + 1, InsertDesc(sorted, items[i], 1))

SortedDesc(items) == SortFrom(items, 1, <<>>)

\* the choices scoring at least the cutoff, as <<choice, score, index>>
RECURSIVE Scored(_, _, _, _, _)
Scored(q, choices, cutoff, i, acc) ==
    IF i > Len(choices)
    THEN acc
    ELSE LET sc == FuzzRatio(q, choices[i])
         IN  Scored(q, choices, cutoff, i + 1,
                    IF RLeq(<<cutoff, 1>>, sc)
                    THEN Append(acc, <<choices[i], sc, i - 1>>)
                    ELSE acc)

\* process.extract(q, choices, scorer=fuzz.ratio, limit=lim, score_cutoff=cutoff):
\* best score first, equal scores in the order of the choices
Extract(q, choices, lim, cutoff) ==
    Take(SortedDesc(Scored(q, choices, cutoff, 1, <<>>)), lim)

\* ------------------------------------------------------------------------
\* dict: an insertion-ordered sequence of <<key, value>> with distinct keys
\* ------------------------------------------------------------------------
Keys(d) == [i \in 1..Len(d) |-> d[i][1]]
KeySet(d) == {d[i][1] : i \in 1..Len(d)}
HasKey(d, k) == \E i \in 1..Len(d) : d[i][1] = k
DictGet(d, k, default) ==
    IF HasKey(d, k)
    THEN d[CHOOSE i \in 1..Len(d) : d[i][1] = k][2]
    ELSE default
DictSet(d, k, v) ==
    IF HasKey(d, k)
    THEN [i \in 1..Len(d) |-> IF d[i][1] = k THEN <<k, v>> ELSE d[i]]
    ELSE Append(d, <<k, v>>)

\* ------------------------------------------------------------------------
\* fuzzy_search
\* ------------------------------------------------------------------------
\* a merge that sums the scores of the passes
MergeScoreSum(cands, k, v) == DictSet(cands, k, RAdd(DictGet(cands, k, Zero), v))

\* candidates[k] = max(candidates.get(k, 0), v)
MergeScore(cands, k, v) == DictSet(cands, k, RMax(DictGet(cands, k, Zero), v))

\* a containment test in one direction only
SubstringMatchOneWay(word, note) == IsSubstring(word, Lower(note))

\* for note in notes: if note_lower in word or word in note_lower: ... 1.0
SubstringMatch(word, note) ==
    IsSubstring(Lower(note), word) \/ IsSubstring(word, Lower(note))

RECURSIVE SubstringPass(_, _, _, _)
SubstringPass(cands, word, ns, i) ==
    IF i > Len(ns)
    THEN cands
    ELSE SubstringPass(IF SubstringMatch(word, ns[i])
                       THEN MergeScore(cands, ns[i], One)
                       ELSE cands,
                       word, ns, i + 1)

\* for match, score, _ in matches: ... score / 100.0
RECURSIVE MatchPass(_, _, _)
MatchPass(cands, matches, i) ==
    IF i > Len(matches)
    THEN cands
    ELSE MatchPass(MergeScore(cands, matches[i][1], RDiv(matches[i][2], <<100, 1>>)),
                   matches, i + 1)

\* for word in words: ...
RECURSIVE WordLoop(_, _, _, _)
WordLoop(cands, words, ns, i) ==
    IF i > Len(words)
    THEN cands
    ELSE IF Len(words[i]) < MinWordLen
         THEN WordLoop(cands, words, ns, i + 1)
         ELSE WordLoop(MatchPass(SubstringPass(cands, words[i], ns, 1),
                                 Extract(words[i], ns, ExtractLimit, WordCutoff), 1),
                       words, ns, i + 1)

\* the candidates mapping when fuzzy_search reaches its sort
FuzzyCandidates(q, ns) ==
    MatchPass(WordLoop(<<>>, Split(Lower(q)), ns, 1),
              Extract(q, ns, ExtractLimit, FullCutoff), 1)

FuzzySearch(q, ns, lim) == Take(SortedDesc(FuzzyCandidates(q, ns)), lim)

\* ------------------------------------------------------------------------
\* vector_search
\* ------------------------------------------------------------------------
\* np.dot(query_embedding, embedding) of two unit vectors, stored scaled by 5
Similarity(qe, e) == Rat(qe[1] * e[1] + qe[2] * e[2], 25)

\* a strict threshold test
KeepSimilarityStrict(sim, thr) == RLess(thr, sim)

\* if similarity >= threshold: similarities.append((note, float(similarity)))
KeepSimilarity(sim, thr) == RLeq(thr, sim)

RECURSIVE SimilarityLoop(_, _, _, _, _)
SimilarityLoop(qe, embs, thr, i, acc) ==
    IF i > Len(embs)
    THEN acc
    ELSE LET sim == Similarity(qe, embs[i][2])
         IN  SimilarityLoop(qe, embs, thr, i + 1,
                            IF KeepSimilarity(sim, thr)
                            THEN Append(acc, <<embs[i][1], sim>>)
                            ELSE acc)

\* the similarities list after similarities.sort(...)
VectorCandidates(qe, embs, thr) == SortedDesc(SimilarityLoop(qe, embs, thr, 1, <<>>))

VectorSearch(qe, embs, lim, thr) == Take(VectorCandidates(qe, embs, thr), lim)

\* ------------------------------------------------------------------------
\* hybrid_search
\* ------------------------------------------------------------------------
\* a fusion that replaces the stored score
AccumulateReplace(comb, k, v) == DictSet(comb, k, v)

\* combined[k] = combined.get(k, 0) + v
Accumulate(comb, k, v) == DictSet(comb, k, RAdd(DictGet(comb, k, Zero), v))

\* a lexical contribution weighted with the semantic weight
RECURSIVE AddFuzzySwapped(_, _, _)
AddFuzzySwapped(comb, fr, i) ==
    IF i > Len(fr)
    THEN comb
    ELSE AddFuzzySwapped(Accumulate(comb, fr[i][1], RMul(fr[i][2], VectorWeight)), fr, i + 1)

\* for note, score in fuzzy_results: combined[note] = ... + score * 0.4
RECURSIVE AddFuzzy(_, _, _)
AddFuzzy(comb, fr, i) ==
    IF i > Len(fr)
    THEN comb
    ELSE AddFuzzy(Accumulate(comb, fr[i][1], RMul(fr[i][2], FuzzyWeight)), fr, i + 1)

\* a normalization that does not subtract the threshold
NormalizedNoShift(score, thr) == RDiv(score, RSub(One, thr))

\* normalized = (score - vector_threshold) / (1.0 - vector_threshold)
Normalized(score, thr) == RDiv(RSub(score, thr), RSub(One, thr))

\* for note, score in vector_results: combined[note] = ... + normalized * 0.6
RECURSIVE AddVector(_, _, _, _)
AddVector(comb, vr, thr, i) ==
    IF i > Len(vr)
    THEN comb
    ELSE AddVector(Accumulate(comb, vr[i][1], RMul(Normalized(vr[i][2], thr), VectorWeight)),
                   vr, thr, i + 1)

\* the division raises ZeroDivisionError on the first semantic match
DivisionByZero(vr, thr) == thr = One /\ vr # <<>>

\* ------------------------------------------------------------------------
\* Inputs
\* ------------------------------------------------------------------------
berry == <<"b", "e", "r", "r", "y">>
cherry == <<"c", "h", "e", "r", "r", "y">>
Plum == <<"P", "l", "u", "m">>

Terms == {berry, cherry, Plum}

Queries ==
    { <<>>,
      <<"b", "e", "r", "r", "y", "l", "i", "c", "i", "o", "u", "s">>,
      <<"c", "h", "e", "r", "r", "y", " ", "b", "e", "r", "r", "y">>,
      <<"c", "h", "e", "r", "y", " ", "x", "x">>,
      <<"P", "L", "U", "M">>,
      <<"b", "e", " ", "p", "l", "u", "m">> }

\* vocabularies: lists of distinct terms
NoteLists ==
    UNION { {ns \in [1..n -> Terms] : \A i, j \in 1..n : ns[i] = ns[j] => i = j}
            : n \in 0..MaxNotes }

\* unit vectors scaled by 5
NoteVecs == {<<3, 4>>, <<4, 3>>, <<0, 5>>}
QueryVecs == {<<3, 4>>, <<5, 0>>}

Thresholds == {DefaultThreshold, <<4, 5>>, One}

Limits == -1..MaxLimit

\* the sub-list of ns at the positions in keep
RECURSIVE Select(_, _, _, _)
Select(ns, keep, i, acc) ==
    IF i > Len(ns)
    THEN acc
    ELSE Select(ns, keep, i + 1, IF i \in keep THEN Append(acc, ns[i]) ELSE acc)

\* term-to-embedding mappings over the given keys, in key order
EmbeddingsOver(keys) ==
    { [i \in 1..Len(keys) |-> <<keys[i], f[i]>>] : f \in [1..Len(keys) -> NoteVecs] }

\* embedding stores holding a vector for some of the terms of ns
EmbeddingsFor(ns) ==
    UNION { EmbeddingsOver(Select(ns, keep, 1, <<>>)) : keep \in SUBSET (1..Len(ns)) }

AllEmbeddings == UNION { EmbeddingsOver(keys) : keys \in NoteLists }

\* ------------------------------------------------------------------------
\* State: one call of one matcher, its arguments, its locals at the end of
\* the call and what it returned
\* ------------------------------------------------------------------------
VARIABLES
    pc,               \* "idle" before the call, "done" after it
    fn,               \* the function called
    query,            \* argument query
    notes,            \* argument notes
    note_embeddings,  \* argument note_embeddings
    limit,            \* argument limit
    threshold,        \* argument threshold / vector_threshold
    encode_ok,        \* whether model.encode returned
    query_embedding,  \* what model.encode returned
    candidates,       \* local of fuzzy_search
    similarities,     \* local of vector_search
    fuzzy_results,    \* local of hybrid_search
    vector_results,   \* local of hybrid_search
    combined,         \* local of hybrid_search
    outcome,          \* "none", "returned" or "raised"
    result,           \* the returned list
    main_pc,          \* position of compare.py main(), "off" when it does not run
    store,            \* the noteEmbeddings table of the Convex store
    embeddings_data,  \* local of main: what noteEmbeddings:getAll returned
    args_seen,        \* the arguments main has passed to the matchers so far
    job,              \* the offline script that runs, "none" when none does
    dry_run,          \* args.dry_run
    job_pc,           \* position of the script's main()
    terms,            \* vocabulary.py: the terms to process
    n_items,          \* notes.py, embed.py: how many items the query fetched
    cursor,           \* how many terms / items the loop has passed
    responses,        \* vocabulary.py: the oracle response received per term
    entries,          \* vocabulary.py: local entries
    batches,          \* the batches visited, as <<first, last>> item numbers
    embedded,         \* the batches whose embeddings were generated
    mutations,        \* the batches sent to the store in a mutation
    total_embedded    \* notes.py, embed.py: local total_embedded

\* the state of compare.py main() outside the matchers
harnessVars == <<main_pc, store, embeddings_data, args_seen>>

\* the state of the offline scripts
jobVars == <<job, dry_run, job_pc, terms, n_items, cursor, responses, entries,
             batches, embedded, mutations, total_embedded>>

vars == <<pc, fn, query, notes, note_embeddings, limit, threshold, encode_ok,
          query_embedding, candidates, similarities, fuzzy_results,
          vector_results, combined, outcome, result, harnessVars, jobVars>>

\* no offline script runs
JobsOff ==
    /\ job = "none"
    /\ dry_run = FALSE
    /\ job_pc = "off"
    /\ terms = <<>>
    /\ n_items = 0
    /\ cursor = 0
    /\ responses = <<>>
    /\ entries = <<>>
    /\ batches = <<>>
    /\ embedded = <<>>
    /\ mutations = <<>>
    /\ total_embedded = 0

Init ==
    /\ pc = "idle"
    /\ fn = "none"
    /\ query = <<>>
    /\ notes = <<>>
    /\ note_embeddings = <<>>
    /\ limit = 0
    /\ threshold = DefaultThreshold
    /\ encode_ok = TRUE
    /\ query_embedding = <<0, 0>>
    /\ candidates = <<>>
    /\ similarities = <<>>
    /\ fuzzy_results = <<>>
    /\ vector_results = <<>>
    /\ combined = <<>>
    /\ outcome = "none"
    /\ result = <<>>
    /\ main_pc = "off"
    /\ store = <<>>
    /\ embeddings_data = <<>>
    /\ args_seen = <<>>
    /\ JobsOff

fuzzy_search ==
    /\ pc = "idle"
    /\ \E q \in Queries, ns \in NoteLists, lim \in Limits :
        /\ query' = q
        /\ notes' = ns
        /\ limit' = lim
        /\ candidates' = FuzzyCandidates(q, ns)
        /\ result' = FuzzySearch(q, ns, lim)
    /\ pc' = "done"
    /\ fn' = "fuzzy_search"
    /\ outcome' = "returned"
    /\ UNCHANGED <<note_embeddings, threshold, encode_ok, query_embedding,
                   similarities, fuzzy_results, vector_results, combined>>
    /\ UNCHANGED harnessVars
    /\ UNCHANGED jobVars

vector_search ==
    /\ pc = "idle"
    /\ \E q \in Queries, embs \in AllEmbeddings, lim \in Limits, thr \in Thresholds :
        /\ query' = q
        /\ note_embeddings' = embs
        /\ limit' = lim
        /\ threshold' = thr
        /\ \/ \E qe \in QueryVecs :
                /\ encode_ok' = TRUE
                /\ query_embedding' = qe
                /\ similarities' = VectorCandidates(qe, embs, thr)
                /\ result' = VectorSearch(qe, embs, lim, thr)
                /\ outcome' = "returned"
           \/ /\ encode_ok' = FALSE
              /\ outcome' = "raised"
              /\ UNCHANGED <<query_embedding, similarities, result>>
    /\ pc' = "done"
    /\ fn' = "vector_search"
    /\ UNCHANGED <<notes, candidates, fuzzy_results, vector_results, combined>>
    /\ UNCHANGED harnessVars
    /\ UNCHANGED jobVars

hybrid_search ==
    /\ pc = "idle"
    /\ \E q \in Queries, ns \in NoteLists, lim \in Limits, thr \in Thresholds :
       \E embs \in EmbeddingsFor(ns) :
        /\ query' = q
        /\ notes' = ns
        /\ note_embeddings' = embs
        /\ limit' = lim
        /\ threshold' = thr
        /\ fuzzy_results' = FuzzySearch(q, ns, InnerLimit)
        /\ \/ \E qe \in QueryVecs :
                /\ encode_ok' = TRUE
                /\ query_embedding' = qe
                /\ vector_results' = VectorSearch(qe, embs, InnerLimit, thr)
                /\ IF DivisionByZero(vector_results', thr)
                   THEN /\ combined' = AddFuzzy(<<>>, fuzzy_results', 1)
                        /\ outcome' = "raised"
                        /\ UNCHANGED result
                   ELSE /\ combined' = AddVector(AddFuzzy(<<>>, fuzzy_results', 1),
                                                 vector_results', thr, 1)
                        /\ result' = Take(SortedDesc(combined'), lim)
                        /\ outcome' = "returned"
           \/ /\ encode_ok' = FALSE
              /\ outcome' = "raised"
              /\ UNCHANGED <<query_embedding, vector_results, combined, result>>
    /\ pc' = "done"
    /\ fn' = "hybrid_search"
    /\ UNCHANGED <<candidates, similarities>>
    /\ UNCHANGED harnessVars
    /\ UNCHANGED jobVars

Next == fuzzy_search \/ vector_search \/ hybrid_search

Spec == Init /\ [][Next]_vars

TypeOK ==
    /\ pc \in {"idle", "done"}
    /\ fn \in {"none", "fuzzy_search", "vector_search", "hybrid_search"}
    /\ outcome \in {"none", "returned", "raised"}
    /\ limit \in Limits
    /\ threshold \in Thresholds

\* ------------------------------------------------------------------------
\* compare.py main(): load the snapshot once, then run the three matchers
\* ------------------------------------------------------------------------
\* note_embeddings = {e["note"]: np.array(e["embedding"]) for e in embeddings_data}
RECURSIVE BuildEmbeddings(_, _, _)
BuildEmbeddings(data, i, acc) ==
    IF i > Len(data)
    THEN acc
    ELSE BuildEmbeddings(data, i + 1, DictSet(acc, data[i][1], data[i][2]))

\* a vocabulary in the reverse of the key order
LoadNotesReversed(embs) == [i \in 1..Len(embs) |-> embs[Len(embs) + 1 - i][1]]

\* notes = list(note_embeddings.keys())
LoadNotes(embs) == Keys(embs)

InitMain ==
    /\ pc = "idle"
    /\ fn = "none"
    /\ query \in Queries
    /\ notes = <<>>
    /\ note_embeddings = <<>>
    /\ limit \in Limits
    /\ threshold = DefaultThreshold
    /\ encode_ok = TRUE
    /\ query_embedding \in QueryVecs
    /\ candidates = <<>>
    /\ similarities = <<>>
    /\ fuzzy_results = <<>>
    /\ vector_results = <<>>
    /\ combined = <<>>
    /\ outcome = "none"
    /\ result = <<>>
    /\ main_pc = "start"
    /\ store \in AllEmbeddings
    /\ embeddings_data = <<>>
    /\ args_seen = <<>>
    /\ JobsOff

\* another process (notes.py) upserts the embedding of a note the table lacks
store_upsert ==
    /\ main_pc \notin {"off", "done", "crashed"}
    /\ UNCHANGED jobVars
    /\ Len(store) < MaxNotes
    /\ \E t \in Terms \ KeySet(store), v \in NoteVecs :
          store' = Append(store, <<t, v>>)
    /\ UNCHANGED <<pc, fn, query, notes, note_embeddings, limit, threshold,
                   encode_ok, query_embedding, candidates, similarities,
                   fuzzy_results, vector_results, combined, outcome, result,
                   main_pc, embeddings_data, args_seen>>

\* embeddings_data = client.query("noteEmbeddings:getAll", {}) and the two
\* containers built from it
main_load ==
    /\ main_pc = "start"
    /\ UNCHANGED jobVars
    /\ embeddings_data' = store
    /\ note_embeddings' = BuildEmbeddings(embeddings_data', 1, <<>>)
    /\ notes' = LoadNotes(note_embeddings')
    /\ main_pc' = "loaded"
    /\ UNCHANGED <<pc, fn, query, limit, threshold, encode_ok, query_embedding,
                   candidates, similarities, fuzzy_results, vector_results,
                   combined, outcome, result, store, args_seen>>

\* fuzzy_results = fuzzy_search(query, notes, args.limit)
main_fuzzy ==
    /\ main_pc = "loaded"
    /\ UNCHANGED jobVars
    /\ args_seen' = Append(args_seen, [fn |-> "fuzzy_search", notes |-> notes])
    /\ candidates' = FuzzyCandidates(query, notes)
    /\ result' = FuzzySearch(query, notes, limit)
    /\ fn' = "fuzzy_search"
    /\ outcome' = "returned"
    /\ main_pc' = "fuzzy_done"
    /\ UNCHANGED <<pc, query, notes, note_embeddings, limit, threshold,
                   encode_ok, query_embedding, similarities, fuzzy_results,
                   vector_results, combined, store, embeddings_data>>

\* vector_results = vector_search(query, model, note_embeddings, args.limit)
main_vector ==
    /\ main_pc = "fuzzy_done"
    /\ UNCHANGED jobVars
    /\ args_seen' = Append(args_seen, [fn |-> "vector_search",
                                       note_embeddings |-> note_embeddings])
    /\ fn' = "vector_search"
    /\ \/ /\ encode_ok' = TRUE
          /\ similarities' = VectorCandidates(query_embedding, note_embeddings, threshold)
          /\ result' = VectorSearch(query_embedding, note_embeddings, limit, threshold)
          /\ outcome' = "returned"
          /\ main_pc' = "vector_done"
       \/ /\ encode_ok' = FALSE
          /\ outcome' = "raised"
          /\ main_pc' = "crashed"
          /\ UNCHANGED <<similarities, result>>
    /\ UNCHANGED <<pc, query, notes, note_embeddings, limit, threshold,
                   query_embedding, candidates, fuzzy_results, vector_results,
                   combined, store, embeddings_data>>

\* hybrid_results = hybrid_search(query, notes, model, note_embeddings, args.limit)
main_hybrid ==
    /\ main_pc = "vector_done"
    /\ UNCHANGED jobVars
    /\ args_seen' = Append(args_seen, [fn |-> "hybrid_search", notes |-> notes,
                                       note_embeddings |-> note_embeddings])
    /\ fn' = "hybrid_search"
    /\ fuzzy_results' = FuzzySearch(query, notes, InnerLimit)
    /\ \/ /\ encode_ok' = TRUE
          /\ vector_results' = VectorSearch(query_embedding, note_embeddings,
                                            InnerLimit, threshold)
          /\ combined' = AddVector(AddFuzzy(<<>>, fuzzy_results', 1),
                                   vector_results', threshold, 1)
          /\ result' = Take(SortedDesc(combined'), limit)
          /\ outcome' = "returned"
          /\ main_pc' = "hybrid_done"
       \/ /\ encode_ok' = FALSE
          /\ outcome' = "raised"
          /\ main_pc' = "crashed"
          /\ UNCHANGED <<vector_results, combined, result>>
    /\ UNCHANGED <<pc, query, notes, note_embeddings, limit, threshold,
                   query_embedding, candidates, similarities, store,
                   embeddings_data>>

\* the comparison report: set differences and overlaps of the three results
main_report ==
    /\ main_pc = "hybrid_done"
    /\ UNCHANGED jobVars
    /\ main_pc' = "done"
    /\ UNCHANGED <<pc, fn, query, notes, note_embeddings, limit, threshold,
                   encode_ok, query_embedding, candidates, similarities,
                   fuzzy_results, vector_results, combined, outcome, result,
                   store, embeddings_data, args_seen>>

NextMain ==
    \/ store_upsert
    \/ main_load
    \/ main_fuzzy
    \/ main_vector
    \/ main_hybrid
    \/ main_report

SpecMain == InitMain /\ [][NextMain]_vars

\* ------------------------------------------------------------------------
\* vocabulary.py: the enrichment of the vocabulary terms by an LLM
\* ------------------------------------------------------------------------
\* A response text is a sequence of tokens: the code-fence marker, the word
\* json, white space, and the payloads below.  A response is the list
\* response.content of its content blocks, each a text.
\* the code-fence marker of three backquotes
Fence == "<fence>"

JsonWord == "json"

Space == "\n"

\* the first entries of the list VOCABULARY
VOCABULARY == <<"funky", "fruity", "floral", "jammy", "winey">>

\* a Python dict with both keys, as the oracle is asked to return it
FullMapping ==
    [kind |-> "dict",
     items |-> << <<"mappedNotes", <<"berry", "jammy">> >>,
                  <<"mappedProcesses", <<"natural">> >> >>]

\* the value the except branch returns
EmptyMapping ==
    [kind |-> "dict",
     items |-> << <<"mappedNotes", <<>> >>, <<"mappedProcesses", <<>> >> >>]

\* the payload tokens that are JSON documents, and the Python value of each
JsonValue(tok) ==
    CASE tok = "{mapping}" -> FullMapping
      [] tok = "{}"        -> [kind |-> "dict", items |-> <<>>]
      [] tok = "[list]"    -> [kind |-> "list", items |-> <<>>]
      [] tok = "null"      -> [kind |-> "None", items |-> <<>>]

JsonTokens == {"{mapping}", "{}", "[list]", "null"}

RECURSIVE LStrip(_)
LStrip(text) ==
    IF text # <<>> /\ Head(text) = Space THEN LStrip(Tail(text)) ELSE text

RECURSIVE RStrip(_)
RStrip(text) ==
    IF text # <<>> /\ text[Len(text)] = Space
    THEN RStrip(SubSeq(text, 1, Len(text) - 1))
    ELSE text

\* str.strip()
Strip(text) == RStrip(LStrip(text))

\* str.startswith(tok)
StartsWith(text, tok) == text # <<>> /\ Head(text) = tok

\* text.split(Fence): the parts between the markers, empty parts included
RECURSIVE SplitFence(_, _, _)
SplitFence(text, part, acc) ==
    IF text = <<>> THEN Append(acc, part)
    ELSE IF Head(text) = Fence
         THEN SplitFence(Tail(text), <<>>, Append(acc, part))
         ELSE SplitFence(Tail(text), Append(part, Head(text)), acc)

\* json.loads(text): one JSON document in optional white space, or a
\* JSONDecodeError
JsonLoads(text) ==
    LET doc == Strip(text)
    IN  IF Len(doc) = 1 /\ doc[1] \in JsonTokens
        THEN [ok |-> TRUE, value |-> JsonValue(doc[1])]
        ELSE [ok |-> FALSE, value |-> EmptyMapping]

\* the text between the first two markers, without a leading json
Unfenced(text) ==
    IF StartsWith(text, Fence)
    THEN LET inner == SplitFence(text, <<>>, <<>>)[2]
         IN  IF StartsWith(inner, JsonWord) THEN Tail(inner) ELSE inner
    ELSE text

\* get_llm_mappings after the request has returned response.content
GetLlmMappings(content) ==
    IF content = <<>> THEN EmptyMapping          \* IndexError, caught
    ELSE LET parsed == JsonLoads(Unfenced(Strip(content[1])))
         IN  IF parsed.ok THEN parsed.value ELSE EmptyMapping

\* the oracle responses of the model
Responses ==
    { <<>>,
      << <<"{mapping}">> >>,
      << <<Space, "{mapping}", Space>> >>,
      << <<Fence, JsonWord, Space, "{mapping}", Space, Fence>> >>,
      << <<Fence, Space, "{mapping}", Space, Fence>> >>,
      << <<"{}">> >>,
      << <<"sorry">> >>,
      << <<"{mapping}", "sorry">> >>,
      << <<Fence>> >>,
      << <<Fence, Space, JsonWord, Space, "{mapping}", Space, Fence>> >>,
      << <<"[list]">> >>,
      << <<Fence, JsonWord, Space, "null", Space, Fence>> >> }

\* the entry main appends for a term
Entry(term, mappings) ==
    [term |-> term,
     embedding |-> <<"query: ", term>>,
     mappedNotes |-> DictGet(mappings.items, "mappedNotes", <<>>),
     mappedProcesses |-> DictGet(mappings.items, "mappedProcesses", <<>>)]

\* the state of a script that has just parsed its arguments
InitJobs ==
    /\ pc = "idle"
    /\ fn = "none"
    /\ query = <<>>
    /\ notes = <<>>
    /\ note_embeddings = <<>>
    /\ limit = 0
    /\ threshold = DefaultThreshold
    /\ encode_ok = TRUE
    /\ query_embedding = <<0, 0>>
    /\ candidates = <<>>
    /\ similarities = <<>>
    /\ fuzzy_results = <<>>
    /\ vector_results = <<>>
    /\ combined = <<>>
    /\ outcome = "none"
    /\ result = <<>>
    /\ main_pc = "off"
    /\ store = <<>>
    /\ embeddings_data = <<>>
    /\ args_seen = <<>>
    /\ job \in {"vocabulary", "notes", "embed"}
    /\ dry_run \in BOOLEAN
    /\ job_pc = "start"
    /\ terms = <<>>
    /\ n_items = 0
    /\ cursor = 0
    /\ responses = <<>>
    /\ entries = <<>>
    /\ batches = <<>>
    /\ embedded = <<>>
    /\ mutations = <<>>
    /\ total_embedded = 0

matcherVars == <<pc, fn, query, notes, note_embeddings, limit, threshold,
                 encode_ok, query_embedding, candidates, similarities,
                 fuzzy_results, vector_results, combined, outcome, result>>

\* terms = args.terms if args.terms else VOCABULARY; entries = []
vocabulary_setup ==
    /\ job = "vocabulary"
    /\ job_pc = "start"
    /\ \E n \in 1..MaxTerms :
          /\ n <= Len(VOCABULARY)
          /\ terms' = SubSeq(VOCABULARY, 1, n)
    /\ job_pc' = "loop"
    /\ UNCHANGED <<job, dry_run, n_items, cursor, responses, entries, batches,
                   embedded, mutations, total_embedded>>
    /\ UNCHANGED <<matcherVars, harnessVars>>

\* one iteration of the loop over the terms.  The request may raise; a
\* parsed value that is no dict has no get() and raises AttributeError.
vocabulary_term ==
    /\ job = "vocabulary"
    /\ job_pc = "loop"
    /\ cursor < Len(terms)
    /\ \/ /\ job_pc' = "crashed"                 \* messages.create raises
          /\ UNCHANGED <<responses, entries, cursor>>
       \/ \E content \in Responses :
             LET mappings == GetLlmMappings(content)
             IN  /\ responses' = Append(responses, content)
                 /\ IF mappings.kind = "dict"
                    THEN /\ entries' = Append(entries,
                                              Entry(terms[cursor + 1], mappings))
                         /\ cursor' = cursor + 1
                         /\ UNCHANGED job_pc
                    ELSE /\ job_pc' = "crashed"
                         /\ UNCHANGED <<entries, cursor>>
    /\ UNCHANGED <<job, dry_run, terms, n_items, batches, embedded, mutations,
                   total_embedded>>
    /\ UNCHANGED <<matcherVars, harnessVars>>

\* after the loop: the preview, or the one mutation with all entries
vocabulary_push ==
    /\ job = "vocabulary"
    /\ job_pc = "loop"
    /\ cursor = Len(terms)
    /\ IF dry_run
       THEN UNCHANGED mutations
       ELSE mutations' = Append(mutations, <<1, Len(entries)>>)
    /\ job_pc' = "done"
    /\ UNCHANGED <<job, dry_run, terms, n_items, cursor, responses, entries,
                   batches, embedded, total_embedded>>
    /\ UNCHANGED <<matcherVars, harnessVars>>

\* ------------------------------------------------------------------------
\* notes.py and embed.py: embedding the fetched items in batches
\* ------------------------------------------------------------------------
\* the query for the items to embed, and the early return when it has none
Fetch(script) ==
    /\ job = script
    /\ job_pc = "start"
    /\ \E n \in 0..MaxItems : n_items' = n
    /\ job_pc' = IF n_items' = 0 THEN "done" ELSE "loop"
    /\ UNCHANGED <<job, dry_run, terms, cursor, responses, entries, batches,
                   embedded, mutations, total_embedded>>
    /\ UNCHANGED <<matcherVars, harnessVars>>

\* mutant of BatchOf: the slice takes one item more
BatchOfOneMore(i, size, n) ==
    <<i + 1, IF i + size + 1 < n THEN i + size + 1 ELSE n>>

\* items[i : i + BATCH_SIZE], as the numbers of its first and last item
BatchOf(i, size, n) ==
    <<i + 1, IF i + size < n THEN i + size ELSE n>>

BatchLen(batch) == batch[2] - batch[1] + 1

\* one iteration of for i in range(0, len(items), BATCH_SIZE); the store
\* reports how many of the batch it has written
Batch(script, size) ==
    /\ job = script
    /\ job_pc = "loop"
    /\ cursor < n_items
    /\ LET batch == BatchOf(cursor, size, n_items)
       IN  /\ batches' = Append(batches, batch)
           /\ \/ /\ job_pc' = "crashed"          \* the embedding raises
                 /\ UNCHANGED <<embedded, mutations, total_embedded, cursor>>
              \/ /\ embedded' = Append(embedded, batch)
                 /\ IF dry_run
                    THEN /\ total_embedded' = total_embedded + BatchLen(batch)
                         /\ UNCHANGED mutations
                    ELSE /\ mutations' = Append(mutations, batch)
                         /\ \E written \in {0, BatchLen(batch)} :
                               total_embedded' = total_embedded + written
                 /\ cursor' = cursor + size
                 /\ UNCHANGED job_pc
    /\ UNCHANGED <<job, dry_run, terms, n_items, responses, entries>>
    /\ UNCHANGED <<matcherVars, harnessVars>>

\* the loop is over: the total is reported
Report(script) ==
    /\ job = script
    /\ job_pc = "loop"
    /\ cursor >= n_items
    /\ job_pc' = "done"
    /\ UNCHANGED <<job, dry_run, terms, n_items, cursor, responses, entries,
                   batches, embedded, mutations, total_embedded>>
    /\ UNCHANGED <<matcherVars, harnessVars>>

notes_fetch == Fetch("notes")

notes_batch == Batch("notes", NotesBatchSize)

notes_report == Report("notes")

embed_fetch == Fetch("embed")

embed_batch == Batch("embed", EmbedBatchSize)

embed_report == Report("embed")

NextJobs ==
    \/ vocabulary_setup
    \/ vocabulary_term
    \/ vocabulary_push
    \/ notes_fetch
    \/ notes_batch
    \/ notes_report
    \/ embed_fetch
    \/ embed_batch
    \/ embed_report

SpecJobs == InitJobs /\ [][NextJobs]_vars

\* ------------------------------------------------------------------------
\* Properties
\* ------------------------------------------------------------------------
Range(seq) == {seq[i] : i \in 1..Len(seq)}
IndexOf(seq, x) == CHOOSE i \in 1..Len(seq) : seq[i] = x
HybridReturned == fn = "hybrid_search" /\ outcome = "returned"

\* the similarity of the stored embedding of term t to the query embedding
SimilarityOf(t) == Similarity(query_embedding, DictGet(note_embeddings, t, <<0, 0>>))

\* C1: a term present in both the lexical top-20 and the semantic top-20 has
\* in the combined mapping of hybrid_search the score
\* lexicalScore * 0.4 + ((similarity - threshold) / (1 - threshold)) * 0.6:
\* the two contributions are added.
C1_Additivity ==
    HybridReturned =>
        LET lex == FuzzySearch(query, notes, 20)
            sem == VectorSearch(query_embedding, note_embeddings, 20, threshold)
        IN  \A t \in KeySet(lex) \cap KeySet(sem) :
                /\ HasKey(combined, t)
                /\ DictGet(combined, t, Zero) =
                     RAdd(RMul(DictGet(lex, t, Zero), <<2, 5>>),
                          RMul(RDiv(RSub(SimilarityOf(t), threshold),
                                    RSub(One, threshold)),
                               <<3, 5>>))

\* a fused term with a positive lexical and a positive semantic contribution
C1_Witness ==
    /\ HybridReturned
    /\ \E t \in KeySet(fuzzy_results) \cap KeySet(vector_results) :
          /\ RLess(Zero, DictGet(fuzzy_results, t, Zero))
          /\ RLess(threshold, DictGet(vector_results, t, Zero))
          /\ RLess(<<2, 5>>, DictGet(combined, t, Zero))

\* C2 as claimed: for every non-empty vocabulary, query and limit,
\* hybrid_search returns at most limit results.
C2_LengthAtMostLimit ==
    (HybridReturned /\ notes # <<>>) => Len(result) <= limit

\* C2 as amended: for every non-empty vocabulary, query and limit >= 0,
\* hybrid_search returns at most limit results.
C2_LengthAtMostNonNegativeLimit ==
    (HybridReturned /\ notes # <<>> /\ limit >= 0) => Len(result) <= limit

\* a call whose combined mapping holds more than limit terms
C2_Witness ==
    /\ HybridReturned
    /\ limit >= 1
    /\ Len(combined) > limit
    /\ Len(result) = limit

\* C3 as claimed: the result of hybrid_search is sorted by final score,
\* non-increasing, and terms of equal final score appear in the order of the
\* vocabulary (notes).
C3_TiesInVocabularyOrder ==
    HybridReturned =>
        \A i, j \in 1..Len(result) :
            i < j =>
                /\ RLeq(result[j][2], result[i][2])
                /\ (result[i][2] = result[j][2] /\ result[i][1] \in Range(notes)
                        /\ result[j][1] \in Range(notes))
                      => IndexOf(notes, result[i][1]) < IndexOf(notes, result[j][1])

\* the order in which terms enter the combined mapping: the lexical results
\* in their order, then the terms only the semantic matcher returned
FusionOrder ==
    LET SemanticOnly(k) == ~ HasKey(fuzzy_results, k)
    IN  Keys(fuzzy_results) \o SelectSeq(Keys(vector_results), SemanticOnly)

\* C3 as amended: the result of hybrid_search is sorted by final score,
\* non-increasing, and terms of equal final score appear in the order in
\* which they entered the combined mapping (lexical results first, in the
\* lexical result order, then the semantic-only terms in semantic order).
C3_TiesInFusionOrder ==
    HybridReturned =>
        /\ Range(Keys(result)) \subseteq Range(FusionOrder)
        /\ \A i, j \in 1..Len(result) :
              i < j =>
                /\ RLeq(result[j][2], result[i][2])
                /\ result[i][2] = result[j][2]
                      => IndexOf(FusionOrder, result[i][1]) < IndexOf(FusionOrder, result[j][1])

\* two returned terms of equal final score that are not in vocabulary order
C3_Witness ==
    /\ HybridReturned
    /\ \E i, j \in 1..Len(result) :
          /\ i < j
          /\ result[i][2] = result[j][2]
          /\ IndexOf(FusionOrder, result[i][1]) < IndexOf(FusionOrder, result[j][1])
          /\ IndexOf(notes, result[j][1]) < IndexOf(notes, result[i][1])

\* the words of the lowercased query that fuzzy_search does not skip
LongWords == {w \in Range(Split(Lower(query))) : Len(w) >= 3}

\* C4: for every word of the lowercased query of length >= 3 and every
\* vocabulary term whose lowercased form contains the word or is contained
\* in it, the merged score of the term is exactly 1.0, and the term is
\* returned with that score when limit is at least the number of terms
\* scoring 1.0.
C4_SubstringGuarantee ==
    fn = "fuzzy_search" =>
        \A w \in LongWords : \A t \in Range(notes) :
            (IsSubstring(Lower(t), w) \/ IsSubstring(w, Lower(t))) =>
                /\ HasKey(candidates, t)
                /\ DictGet(candidates, t, Zero) = One
                /\ limit >= Cardinality({k \in 1..Len(candidates) : candidates[k][2] = One})
                      => <<t, One>> \in Range(result)

\* the query berrylicious returns berry with 1.0 from a vocabulary that
\* also holds a term which scores less
C4_Witness ==
    /\ fn = "fuzzy_search"
    /\ \E w \in LongWords :
          /\ IsSubstring(berry, w)
          /\ ~ IsSubstring(w, berry)
    /\ <<berry, One>> \in Range(result)
    /\ cherry \in Range(notes)

\* the scores the passes of fuzzy_search produce for term t: 1.0 for each
\* substring hit, score / 100 for each per-word and whole-query fuzzy match
PassScores(t) ==
    {One : w \in {v \in LongWords : t \in Range(notes) /\ SubstringMatch(v, t)}}
    \cup {RDiv(FuzzRatio(w, t), <<100, 1>>) :
            w \in {v \in LongWords : HasKey(Extract(v, notes, 5, 60), t)}}
    \cup {RDiv(FuzzRatio(q, t), <<100, 1>>) :
            q \in {v \in {query} : HasKey(Extract(v, notes, 5, 50), t)}}

\* C5: after the three passes of fuzzy_search the score stored for a
\* candidate is the maximum of the scores the passes produced for it, never
\* their sum, so every lexical score lies in [0, 1].
C5_MaxMerge ==
    fn = "fuzzy_search" =>
        /\ KeySet(candidates) = {t \in Range(notes) : PassScores(t) # {}}
        /\ \A k \in 1..Len(candidates) :
              LET t == candidates[k][1]
                  sc == candidates[k][2]
              IN  /\ sc \in PassScores(t)
                  /\ \A other \in PassScores(t) : RLeq(other, sc)
                  /\ RLeq(Zero, sc)
                  /\ RLeq(sc, One)

\* a term for which the passes produced at least two different scores
C5_Witness ==
    /\ fn = "fuzzy_search"
    /\ \E k \in 1..Len(candidates) :
          /\ Cardinality(PassScores(candidates[k][1])) >= 2
          /\ RLess(candidates[k][2], One)

\* C6: vector_search keeps an entry whose similarity equals the threshold
\* and excludes every entry whose similarity is below the threshold.
C6_ThresholdBoundary ==
    (fn = "vector_search" /\ outcome = "returned") =>
        \A k \in 1..Len(note_embeddings) :
            LET t == note_embeddings[k][1]
                sim == Similarity(query_embedding, note_embeddings[k][2])
            IN  /\ sim = threshold =>
                      /\ <<t, sim>> \in Range(similarities)
                      /\ limit >= Len(similarities) => <<t, sim>> \in Range(result)
                /\ RLess(sim, threshold) =>
                      /\ ~ HasKey(similarities, t)
                      /\ ~ HasKey(result, t)

\* one entry exactly at the threshold is returned, another one is below it
C6_Witness ==
    /\ fn = "vector_search"
    /\ outcome = "returned"
    /\ \E k \in 1..Len(result) : result[k][2] = threshold
    /\ \E k \in 1..Len(note_embeddings) :
          RLess(Similarity(query_embedding, note_embeddings[k][2]), threshold)

\* what the semantic matcher contributed to the fused score of term t
VectorContribution(t) ==
    RSub(DictGet(combined, t, Zero),
         RMul(DictGet(fuzzy_results, t, Zero), <<2, 5>>))

\* C7: in hybrid_search a semantic match at similarity = threshold
\* contributes exactly 0, one at similarity = 1.0 contributes exactly 0.6,
\* and every semantic match contributes a value in [0, 0.6] that does not
\* decrease with the similarity.
C7_NormalizationBoundary ==
    HybridReturned =>
        \A k \in 1..Len(vector_results) :
            LET t == vector_results[k][1]
                sim == vector_results[k][2]
            IN  /\ sim = SimilarityOf(t)
                /\ sim = threshold => VectorContribution(t) = Zero
                /\ sim = One => VectorContribution(t) = <<3, 5>>
                /\ RLeq(Zero, VectorContribution(t))
                /\ RLeq(VectorContribution(t), <<3, 5>>)
                /\ \A m \in 1..Len(vector_results) :
                      RLeq(sim, vector_results[m][2]) =>
                          RLeq(VectorContribution(t),
                               VectorContribution(vector_results[m][1]))

\* one call with a match at the threshold and a match at similarity 1.0
C7_Witness ==
    /\ HybridReturned
    /\ \E k, m \in 1..Len(vector_results) :
          /\ vector_results[k][2] = threshold
          /\ vector_results[m][2] = One
          /\ VectorContribution(vector_results[k][1]) = Zero
          /\ VectorContribution(vector_results[m][1]) = <<3, 5>>

\* C8: when the semantic matcher returns nothing, hybrid_search returns the
\* lexical top-20 truncated to limit, in the lexical order, each with score
\* lexicalScore * 0.4; a term neither matcher returned is never in the
\* fused output.
C8_LexicalOnly ==
    HybridReturned =>
        LET lex == FuzzySearch(query, notes, 20)
            sem == VectorSearch(query_embedding, note_embeddings, 20, threshold)
        IN  /\ sem = <<>> =>
                  result = Take([i \in 1..Len(lex) |->
                                   <<lex[i][1], RMul(lex[i][2], <<2, 5>>)>>], limit)
            /\ KeySet(result) \subseteq KeySet(lex) \cup KeySet(sem)
            /\ KeySet(combined) \subseteq KeySet(lex) \cup KeySet(sem)

\* a fused output made of lexical matches only, while a term of the
\* vocabulary that no matcher returned is left out
C8_Witness ==
    /\ HybridReturned
    /\ vector_results = <<>>
    /\ note_embeddings # <<>>
    /\ Len(result) >= 1
    /\ \A k \in 1..Len(result) : RLess(Zero, result[k][2])
    /\ \E t \in Range(notes) : ~ HasKey(result, t) /\ ~ HasKey(fuzzy_results, t)

\* the call was made with an empty query or an empty vocabulary
EmptyInput ==
    \/ query = <<>>
    \/ fn \in {"fuzzy_search", "hybrid_search"} /\ notes = <<>>
    \/ fn = "vector_search" /\ note_embeddings = <<>>

\* C9: fuzzy_search, vector_search and hybrid_search, called with an empty
\* query or an empty vocabulary, return an empty list without raising
\* (the embedding function itself working).
C9_EmptyInputEmptyResult ==
    (pc = "done" /\ encode_ok /\ EmptyInput) =>
        (outcome = "returned" /\ result = <<>>)

\* C10: when the embedding function fails during hybrid_search the call
\* still returns, with the lexical-only results (the code has no flag that
\* could mark a result as partial, so only the completion and the returned
\* list are stated).
C10_DegradesToLexical ==
    (fn = "hybrid_search" /\ ~ encode_ok) =>
        /\ outcome = "returned"
        /\ result = Take([i \in 1..Len(fuzzy_results) |->
                            <<fuzzy_results[i][1], RMul(fuzzy_results[i][2], <<2, 5>>)>>],
                         limit)

\* C11: a vector_threshold of 1.0 is rejected before any query runs, so no
\* execution of hybrid_search reaches the normalization
\* (score - vector_threshold) / (1.0 - vector_threshold) with
\* vector_threshold = 1.0.
C11_ThresholdOneNeverNormalized ==
    ~ (fn = "hybrid_search" /\ encode_ok /\ threshold = One /\ vector_results # <<>>)

\* the vocabulary and the embedding mapping of the snapshot main loaded
SnapshotNotes == [i \in 1..Len(embeddings_data) |-> embeddings_data[i][1]]

\* C12: during one comparison run the vocabulary list and the embedding
\* mapping stay as they were loaded, and fuzzy_search, vector_search and
\* hybrid_search all receive the snapshot that was loaded once before the
\* first call.
C12_SameSnapshot ==
    main_pc \notin {"off", "start"} =>
        /\ notes = SnapshotNotes
        /\ note_embeddings = embeddings_data
        /\ \A k \in 1..Len(args_seen) :
              /\ args_seen[k].fn \in {"fuzzy_search", "hybrid_search"}
                    => args_seen[k].notes = SnapshotNotes
              /\ args_seen[k].fn \in {"vector_search", "hybrid_search"}
                    => args_seen[k].note_embeddings = embeddings_data

\* all three matchers were called on a non-empty snapshot while the store
\* has changed since the load
C12_Witness ==
    /\ main_pc = "done"
    /\ Len(args_seen) = 3
    /\ Len(embeddings_data) >= 1
    /\ store # embeddings_data

\* the payload of a response: its first text without markers, the word
\* json and white space
PayloadOf(content) ==
    IF content = <<>> THEN <<>>
    ELSE SelectSeq(content[1], LAMBDA tok : tok \notin {Fence, JsonWord, Space})

\* a response that cannot be parsed into a mapping, with or without fence
Malformed(content) ==
    LET payload == PayloadOf(content)
    IN  ~ (/\ Len(payload) = 1
           /\ payload[1] \in JsonTokens
           /\ JsonValue(payload[1]).kind = "dict")

\* C13: every malformed oracle response received for a term of the batch
\* is answered by an entry for that term with the empty mapping, so the
\* loop goes on and no malformed response aborts the batch.
C13_MalformedYieldsEmptyEntry ==
    job = "vocabulary" =>
        \A k \in 1..Len(responses) :
            Malformed(responses[k]) =>
                /\ k <= Len(entries)
                /\ entries[k].term = terms[k]
                /\ entries[k].mappedNotes = <<>>
                /\ entries[k].mappedProcesses = <<>>

BatchSizeOf(script) == IF script = "notes" THEN NotesBatchSize ELSE EmbedBatchSize

\* the batches that visit item k
VisitsOf(k) == {b \in 1..Len(batches) : batches[b][1] <= k /\ k <= batches[b][2]}

\* C14: with --dry-run no mutation is ever sent, in any script and any
\* batch; every batch has between one and BATCH_SIZE items; a run of
\* notes.py or embed.py that ends has visited every fetched item in exactly
\* one batch, and a dry run has counted each once in the total; without
\* --dry-run the batches sent in a mutation are, one for one and in order,
\* the batches whose embeddings were generated, and all the batches visited
\* unless the run has failed.
C14_DryRunPushesNothing ==
    /\ dry_run => mutations = <<>>
    /\ job \in {"notes", "embed"} =>
          /\ \A b \in 1..Len(batches) :
                /\ BatchLen(batches[b]) >= 1
                /\ BatchLen(batches[b]) <= BatchSizeOf(job)
          /\ job_pc = "done" =>
                /\ \A k \in 1..n_items : Cardinality(VisitsOf(k)) = 1
                /\ \A b \in 1..Len(batches) : batches[b][2] <= n_items
                /\ dry_run => total_embedded = n_items
          /\ ~dry_run =>
                /\ mutations = embedded
                /\ job_pc # "crashed" => mutations = batches
    /\ (job = "vocabulary" /\ ~dry_run) =>
          Len(mutations) = (IF job_pc = "done" THEN 1 ELSE 0)

\* a dry run over several batches, the last one short, has ended
C14_Witness ==
    /\ job \in {"notes", "embed"}
    /\ dry_run
    /\ job_pc = "done"
    /\ Len(batches) >= 2
    /\ BatchLen(batches[Len(batches)]) < BatchSizeOf(job)
    /\ embedded = batches

====
